---- MODULE Spec2Model ----
(***************************************************************************)
(* Model of xls/fuzzer/sample_runner.py: the SampleRunner pipeline         *)
(* (run_from_files, _run_function, _run_proc, _run_command) and the two    *)
(* result comparators (_compare_results_function, _compare_results_proc).  *)
(*                                                                         *)
(* Python's None is modelled by a record field `given = FALSE`; Python     *)
(* 0-based indices are kept (sequence element i is Seq[i + 1]).            *)
(***************************************************************************)
EXTENDS Naturals, Sequences, FiniteSets, TLC

VARIABLES
  pc,          \* position of the run / of the comparator harness
  options,     \* SampleOptions flags
  inputs,      \* which optional input files were handed to run_from_files
  args_batch,  \* the parsed ArgsBatch (or None)
  results,     \* the OrderedDict of results, as a sequence of entries
  timing,      \* the fields of SampleTimingProto that were assigned
  executed,    \* history: the stages entered, in order
  run_dir,     \* the artifacts of the run directory: <<file name, writer>>
  raised,      \* what run_from_files raised to its caller
  outcome      \* what the comparator did

vars == <<pc, options, inputs, args_batch, results, timing, executed,
          run_dir, raised, outcome>>

(***************************************************************************)
(* Bounds of the model.                                                    *)
(***************************************************************************)
\* Total number of Values held by a ResultSet handed to a comparator.
MaxTotal == 4
\* Total number of Values held by a proc-mode ResultSet handed to the
\* comparator.
MaxProcTotal == 3
\* Largest ArgsBatch length.
MaxBatch == 2

(***************************************************************************)
(* Values.  A Value is a bit vector: width w, bit pattern b, and the tag s *)
(* (signed or unsigned) the DSLX interpreter attaches to it.               *)
(***************************************************************************)
Value(w, b, s) == [w |-> w, b |-> b, s |-> s]

Values ==
  { Value(8, 5, FALSE), Value(8, 5, TRUE), Value(8, 6, FALSE),
    Value(16, 5, FALSE) }

\* Value.eq: equality of width and bit pattern, whatever the sign tags.
ValueEq(a, b) == a.w = b.w /\ a.b = b.b

\* A plausible slip: equality that also compares the sign tag.
values_equal_signed(a, b) == a = b

\* values_equal(a, b): a.eq(b).is_true()
values_equal(a, b) == ValueEq(a, b)

\* Value.to_ir_str: the IR literal bits[w]:b, which carries no sign.
to_ir_str(v) == <<"bits", v.w, v.b>>

(***************************************************************************)
(* The ArgsBatch, reduced to what the comparator reads of it: whether it   *)
(* is None, and its length.                                                *)
(***************************************************************************)
NoArgsBatch == [given |-> FALSE, len |-> 0]
ArgsBatch(n) == [given |-> TRUE, len |-> n]

\* Python truth value of an Optional[list]: None and [] are both false.
Truthy(batch) == batch.given /\ batch.len > 0

(***************************************************************************)
(* The OrderedDict of results: a sequence of entries in insertion order.   *)
(***************************************************************************)
Entry(name, values) == [name |-> name, values |-> values]

Keys(d) == { d[k].name : k \in 1..Len(d) }

Get(d, name) == (CHOOSE k \in 1..Len(d) : d[k].name = name)

Lookup(d, name) == d[Get(d, name)].values

\* The stage names the runner uses as keys, in the order Python's sorted()
\* puts them (code-point order: 'J' < 'i', "opt" < "unopt", 'e' < 'i' < 's').
StageOrder ==
  << "evaluated opt IR (JIT)", "evaluated opt IR (interpreter)",
     "evaluated unopt IR (JIT)", "evaluated unopt IR (interpreter)",
     "interpreted DSLX", "simulated" >>

InStageOrder(names) ==
  LET F[k \in 0..Len(StageOrder)] ==
        IF k = 0 THEN <<>>
        ELSE IF StageOrder[k] \in names THEN Append(F[k - 1], StageOrder[k])
             ELSE F[k - 1]
  IN  F[Len(StageOrder)]

\* A plausible slip: the reference is the first result gathered.
sorted_as_inserted(names) == names

\* A plausible slip: the names are sorted in descending order.
sorted_descending(names) ==
  LET up == InStageOrder({ names[k] : k \in 1..Len(names) })
  IN  [k \in 1..Len(up) |-> up[Len(up) + 1 - k]]

\* sorted(names), names a sequence of distinct stage names
sorted(names) == InStageOrder({ names[k] : k \in 1..Len(names) })

KeyList(d) == [k \in 1..Len(d) |-> d[k].name]

(***************************************************************************)
(* What a comparator did: it returned, or it raised.  One record shape     *)
(* serves both comparators; a field an outcome does not use keeps the      *)
(* value it has in Returned.                                               *)
(*   kind: "return", "AssertionError", "IndexError", "TypeError" or, for a *)
(*   SampleError, which of the messages it carries: "length",              *)
(*   "miscompare", "channel_count", "missing_channel", "channel_length",   *)
(*   "channel_value".                                                      *)
(*   compared: the element comparisons made by the scan, in order.         *)
(***************************************************************************)
Returned ==
  [ kind |-> "return", reference |-> "", name |-> "", ref_len |-> 0,
    len |-> 0, index |-> 0, reference_matches |-> <<>>,
    values_matches |-> <<>>, ref_result |-> <<>>, value |-> <<>>,
    args |-> <<>>, channel |-> "", ref_channels |-> <<>>,
    channels |-> <<>>, compared |-> <<>> ]

NotCompared == [Returned EXCEPT !.kind = "none"]

IsSampleErrorKind(kind) ==
  kind \in { "length", "miscompare", "channel_count", "missing_channel",
             "channel_length", "channel_value", "unsupported" }

(***************************************************************************)
(* _compare_results_function                                               *)
(***************************************************************************)
\* A plausible slip: only the two stages being compared are binned.
bin_first_two(res, i, x) ==
  InStageOrder({ res[k].name : k \in
     { j \in 1..Len(res) : j <= 2 /\ values_equal(res[j].values[i + 1], x) } })

\* sorted(n for n, v in results.items() if values_equal(v[i], x))
bin(res, i, x) ==
  InStageOrder({ res[k].name : k \in
     { j \in 1..Len(res) : values_equal(res[j].values[i + 1], x) } })

\* The miscompare raised at index i: the binning reads v[i] of every stage,
\* and the rendering of the arguments reads args_batch[i].
miscompare(res, batch, reference, name, i, log) ==
  LET ref_result == Lookup(res, reference)[i + 1]
      value      == Lookup(res, name)[i + 1]
  IN  IF \E k \in 1..Len(res) : Len(res[k].values) <= i
      THEN [Returned EXCEPT !.kind = "IndexError", !.reference = reference,
                            !.name = name, !.index = i, !.compared = log]
      ELSE IF Truthy(batch) /\ batch.len <= i
      THEN [Returned EXCEPT !.kind = "IndexError", !.reference = reference,
                            !.name = name, !.index = i, !.compared = log]
      ELSE [Returned EXCEPT
              !.kind = "miscompare", !.reference = reference, !.name = name,
              !.index = i,
              !.reference_matches = bin(res, i, ref_result),
              !.values_matches = bin(res, i, value),
              !.ref_result = to_ir_str(ref_result),
              !.value = to_ir_str(value),
              !.args = IF Truthy(batch) THEN <<"args_batch", i>>
                       ELSE <<"(args unknown)">>,
              !.compared = log]

\* for i in range(len(values)): ...  Either the index of the first
\* mismatch with the reference, or the log of a scan that found none.
RECURSIVE scan_values(_, _, _, _, _, _)
scan_values(res, batch, reference, name, i, log) ==
  LET values == Lookup(res, name)
      log2   == Append(log, <<name, i>>)
  IN  IF i >= Len(values) THEN [Returned EXCEPT !.compared = log]
      ELSE IF ~values_equal(Lookup(res, reference)[i + 1], values[i + 1])
      THEN miscompare(res, batch, reference, name, i, log2)
      ELSE scan_values(res, batch, reference, name, i + 1, log2)

\* A plausible slip: the length check is left out, so a candidate shorter
\* than the reference is accepted when its elements agree.
RECURSIVE scan_stages_no_length_check(_, _, _, _, _, _)
scan_stages_no_length_check(res, batch, names, k, reference, log) ==
  IF k > Len(names) THEN [Returned EXCEPT !.compared = log]
  ELSE IF k = 1
  THEN scan_stages_no_length_check(res, batch, names, 2, names[1], log)
  ELSE IF Len(Lookup(res, names[k])) > Len(Lookup(res, reference))
  THEN [Returned EXCEPT !.kind = "IndexError", !.compared = log]
  ELSE LET r == scan_values(res, batch, reference, names[k], 0, log)
       IN  IF r.kind # "return" THEN r
           ELSE scan_stages_no_length_check(res, batch, names, k + 1,
                                            reference, r.compared)

\* for name in sorted(results.keys()): ...
RECURSIVE scan_stages(_, _, _, _, _, _)
scan_stages(res, batch, names, k, reference, log) ==
  IF k > Len(names) THEN [Returned EXCEPT !.compared = log]
  ELSE IF k = 1
  THEN scan_stages(res, batch, names, 2, names[1], log)
  ELSE LET name   == names[k]
           values == Lookup(res, name)
           refs   == Lookup(res, reference)
       IN  IF Len(refs) # Len(values)
           THEN [Returned EXCEPT !.kind = "length", !.reference = reference,
                                 !.name = name, !.ref_len = Len(refs),
                                 !.len = Len(values), !.compared = log]
           ELSE LET r == scan_values(res, batch, reference, name, 0, log)
                IN  IF r.kind # "return" THEN r
                    ELSE scan_stages(res, batch, names, k + 1, reference,
                                     r.compared)

\* A plausible slip: the assertion reads the reference (the first stage in
\* sorted order) instead of the first stage inserted.
_compare_results_function_asserts_reference(res, batch) ==
  IF Len(res) = 0 THEN Returned
  ELSE IF Truthy(batch)
          /\ Len(Lookup(res, sorted(KeyList(res))[1])) # batch.len
  THEN [Returned EXCEPT !.kind = "AssertionError"]
  ELSE scan_stages(res, batch, sorted(KeyList(res)), 1, "", <<>>)

\* if not results: return; if args_batch: assert len(first value inserted)
\* == len(args_batch); then the scan over the sorted stage names.
_compare_results_function(res, batch) ==
  IF Len(res) = 0 THEN Returned
  ELSE IF Truthy(batch) /\ Len(res[1].values) # batch.len
  THEN [Returned EXCEPT !.kind = "AssertionError"]
  ELSE scan_stages(res, batch, sorted(KeyList(res)), 1, "", <<>>)

(***************************************************************************)
(* _compare_results_proc.  A stage's result is a dict from channel name to *)
(* a sequence of Values: again a sequence of entries in insertion order.   *)
(***************************************************************************)
\* A plausible slip: all_channel_values.get(channel_name_ref, []).
channel_get_default(channels, channel) ==
  IF channel \in Keys(channels)
  THEN [found |-> TRUE, values |-> Lookup(channels, channel)]
  ELSE [found |-> TRUE, values |-> <<>>]

\* all_channel_values.get(channel_name_ref): None when the key is absent
channel_get(channels, channel) ==
  IF channel \in Keys(channels)
  THEN [found |-> TRUE, values |-> Lookup(channels, channel)]
  ELSE [found |-> FALSE, values |-> <<>>]

\* for i in range(len(channel_values)): ...
RECURSIVE scan_channel_values(_, _, _, _, _, _, _)
scan_channel_values(reference, name, channel, ref_values, values, i, log) ==
  LET log2 == Append(log, <<name, channel, i>>)
  IN  IF i >= Len(values) THEN [Returned EXCEPT !.compared = log]
      ELSE IF i >= Len(ref_values)
      THEN [Returned EXCEPT !.kind = "IndexError", !.compared = log]
      ELSE IF ~values_equal(ref_values[i + 1], values[i + 1])
      THEN [Returned EXCEPT
              !.kind = "channel_value", !.reference = reference,
              !.name = name, !.channel = channel, !.index = i,
              !.ref_result = ref_values[i + 1], !.value = values[i + 1],
              !.compared = log2]
      ELSE scan_channel_values(reference, name, channel, ref_values, values,
                               i + 1, log2)

\* A plausible slip: the per-channel length check is left out.
check_channel_no_length(reference, name, channel, ref_values, channels, log) ==
  LET got == channel_get(channels, channel)
  IN  IF ~got.found
      THEN [Returned EXCEPT !.kind = "missing_channel",
                            !.reference = reference, !.name = name,
                            !.channel = channel, !.compared = log]
      ELSE scan_channel_values(reference, name, channel, ref_values,
                               got.values, 0, log)

\* The body of the loop over the reference's channels: presence, then
\* length, then the elements.
check_channel(reference, name, channel, ref_values, channels, log) ==
  LET got == channel_get(channels, channel)
  IN  IF ~got.found
      THEN [Returned EXCEPT !.kind = "missing_channel",
                            !.reference = reference, !.name = name,
                            !.channel = channel, !.compared = log]
      ELSE IF Len(ref_values) # Len(got.values)
      THEN [Returned EXCEPT !.kind = "channel_length",
                            !.reference = reference, !.name = name,
                            !.channel = channel, !.ref_len = Len(ref_values),
                            !.len = Len(got.values), !.compared = log]
      ELSE scan_channel_values(reference, name, channel, ref_values,
                               got.values, 0, log)

\* for channel_name_ref, channel_values_ref in all_channel_values_ref.items()
RECURSIVE scan_channels(_, _, _, _, _, _)
scan_channels(reference, name, ref_channels, channels, c, log) ==
  IF c > Len(ref_channels) THEN [Returned EXCEPT !.compared = log]
  ELSE LET r == check_channel(reference, name, ref_channels[c].name,
                              ref_channels[c].values, channels, log)
       IN  IF r.kind # "return" THEN r
           ELSE scan_channels(reference, name, ref_channels, channels, c + 1,
                              r.compared)

\* A plausible slip: the channel-count check is left out.
check_stage_no_count(reference, name, ref_channels, channels, log) ==
  scan_channels(reference, name, ref_channels, channels, 1, log)

\* The body of the loop over the candidate stages.
check_stage(reference, name, ref_channels, channels, log) ==
  IF Len(ref_channels) # Len(channels)
  THEN [Returned EXCEPT !.kind = "channel_count", !.reference = reference,
                        !.name = name, !.ref_len = Len(ref_channels),
                        !.len = Len(channels),
                        !.ref_channels = KeyList(ref_channels),
                        !.channels = KeyList(channels), !.compared = log]
  ELSE scan_channels(reference, name, ref_channels, channels, 1, log)

\* A plausible slip: the scan goes on after a violation and the error of the
\* last violating stage is the one raised.
RECURSIVE scan_proc_stages_keeps_last(_, _, _, _)
scan_proc_stages_keeps_last(res, stages, k, log) ==
  IF k > Len(stages) THEN [Returned EXCEPT !.compared = log]
  ELSE LET r == check_stage(stages[1], stages[k], Lookup(res, stages[1]),
                            Lookup(res, stages[k]), log)
           rest == scan_proc_stages_keeps_last(res, stages, k + 1, r.compared)
       IN  IF r.kind = "return" \/ rest.kind # "return" THEN rest ELSE r

\* for name in stages: ...  (stages[1] is the reference, popped)
RECURSIVE scan_proc_stages(_, _, _, _)
scan_proc_stages(res, stages, k, log) ==
  IF k > Len(stages) THEN [Returned EXCEPT !.compared = log]
  ELSE LET r == check_stage(stages[1], stages[k], Lookup(res, stages[1]),
                            Lookup(res, stages[k]), log)
       IN  IF r.kind # "return" THEN r
           ELSE scan_proc_stages(res, stages, k + 1, r.compared)

_compare_results_proc(res) ==
  IF Len(res) = 0 THEN Returned
  ELSE scan_proc_stages(res, sorted(KeyList(res)), 2, <<>>)

(***************************************************************************)
(* The state shared by the specifications below.                           *)
(***************************************************************************)
\* The order in which _run_function and _run_proc enter results.
PipelineOrder ==
  << "interpreted DSLX", "evaluated unopt IR (interpreter)",
     "evaluated unopt IR (JIT)", "evaluated opt IR (JIT)",
     "evaluated opt IR (interpreter)", "simulated" >>

PipelineRank(name) ==
  CHOOSE k \in 1..Len(PipelineOrder) : PipelineOrder[k] = name

NoOptions ==
  [ top_type |-> "function", input_is_dslx |-> FALSE, convert_to_ir |-> FALSE,
    optimize_ir |-> FALSE, use_jit |-> FALSE, codegen |-> FALSE,
    simulate |-> FALSE ]

\* The optional file names handed to run_from_files (FALSE: None), and
\* whether every vector of the ArgsBatch has one Value per channel name.
NoInputs ==
  [ args_filename |-> FALSE, ir_channel_names_filename |-> FALSE,
    proc_init_values_filename |-> FALSE, args_match_channels |-> TRUE ]

\* What run_from_files raised: kind "none" (nothing yet), "SampleError", or
\* "escaped" (an exception that is no SampleError); for history, the
\* exception it stems from, what went wrong and at which step.
NotRaised ==
  [ kind |-> "none", is_timeout |-> FALSE, exc |-> "none", cause |-> "none",
    at |-> "none" ]

\* SampleRunner.__init__ and the locals of a run before anything ran.
Fresh ==
  /\ results = <<>>
  /\ args_batch = NoArgsBatch
  /\ timing = {}
  /\ executed = <<>>
  /\ run_dir = {}
  /\ raised = NotRaised
  /\ outcome = NotCompared

(***************************************************************************)
(* SpecCompareFunction: every function-mode ResultSet of at most MaxTotal  *)
(* Values over three of the stages is gathered in pipeline order and then  *)
(* handed to _compare_results_function with every ArgsBatch.               *)
(***************************************************************************)
CompareStages ==
  { "interpreted DSLX", "evaluated unopt IR (interpreter)",
    "evaluated opt IR (interpreter)" }

RECURSIVE SumLen(_)
SumLen(d) ==
  IF Len(d) = 0 THEN 0 ELSE Len(d[1].values) + SumLen(Tail(d))

AppendToLast(d, x) ==
  [d EXCEPT ![Len(d)] = Entry(d[Len(d)].name, Append(d[Len(d)].values, x))]

ArgsBatches == { NoArgsBatch } \cup { ArgsBatch(n) : n \in 0..MaxBatch }

InitCompare ==
  /\ pc = "gather"
  /\ options = NoOptions
  /\ inputs = NoInputs
  /\ Fresh

\* results[name] = ...: a stage's result is entered, after those of the
\* stages that precede it in the pipeline.
GatherResult(name) ==
  /\ pc = "gather"
  /\ Len(results) > 0 => PipelineRank(results[Len(results)].name) < PipelineRank(name)
  /\ results' = Append(results, Entry(name, <<>>))
  /\ UNCHANGED <<pc, options, inputs, args_batch, timing, executed, run_dir,
                 raised, outcome>>

\* _parse_values: one more Value of the result being entered.
ParseValue(v) ==
  /\ pc = "gather"
  /\ Len(results) > 0
  /\ SumLen(results) < MaxTotal
  /\ results' = AppendToLast(results, v)
  /\ UNCHANGED <<pc, options, inputs, args_batch, timing, executed, run_dir,
                 raised, outcome>>

CompareFunction(batch) ==
  /\ pc = "gather"
  /\ args_batch' = batch
  /\ outcome' = _compare_results_function(results, batch)
  /\ pc' = "compared"
  /\ UNCHANGED <<options, inputs, results, timing, executed, run_dir, raised>>

NextCompareFunction ==
  \/ \E name \in CompareStages : GatherResult(name)
  \/ \E v \in Values : ParseValue(v)
  \/ \E batch \in ArgsBatches : CompareFunction(batch)

SpecCompareFunction == InitCompare /\ [][NextCompareFunction]_vars

(***************************************************************************)
(* SpecCompareProc: every proc-mode ResultSet of at most MaxProcTotal      *)
(* Values of a shape InputShape admits, the channels of each stage entered *)
(* in any order, is handed to _compare_results_proc.                       *)
(***************************************************************************)
Channels == { "in", "out", "st" }

\* The ResultSets the harness enters: three stages over the channels "in"
\* and "out", or the two IR-interpreter stages with up to two of the three
\* channels each.
InputShape(d) ==
  \/ /\ Keys(d) \subseteq { "evaluated unopt IR (interpreter)",
                            "evaluated opt IR (interpreter)" }
     /\ \A k \in 1..Len(d) : Len(d[k].values) <= 2
  \/ \A k \in 1..Len(d) : Keys(d[k].values) \subseteq { "in", "out" }

ProcValues == { Value(8, 5, FALSE), Value(8, 5, TRUE), Value(8, 6, FALSE) }

RECURSIVE SumProcLen(_)
SumProcLen(d) ==
  IF Len(d) = 0 THEN 0 ELSE SumLen(d[1].values) + SumProcLen(Tail(d))

\* all_channel_values[key] = []: a channel of the result being entered.
AddChannel(channel) ==
  /\ pc = "gather"
  /\ Len(results) > 0
  /\ channel \notin Keys(results[Len(results)].values)
  /\ results' = AppendToLast(results, Entry(channel, <<>>))
  /\ InputShape(results')
  /\ UNCHANGED <<pc, options, inputs, args_batch, timing, executed, run_dir,
                 raised, outcome>>

\* channel_values_result[key].append(...): one more Value of that channel.
ParseChannelValue(v) ==
  /\ pc = "gather"
  /\ Len(results) > 0
  /\ Len(results[Len(results)].values) > 0
  /\ SumProcLen(results) < MaxProcTotal
  /\ results' = [results EXCEPT ![Len(results)] =
                   Entry(results[Len(results)].name,
                         AppendToLast(results[Len(results)].values, v))]
  /\ UNCHANGED <<pc, options, inputs, args_batch, timing, executed, run_dir,
                 raised, outcome>>

CompareProc ==
  /\ pc = "gather"
  /\ outcome' = _compare_results_proc(results)
  /\ pc' = "compared"
  /\ UNCHANGED <<options, inputs, args_batch, results, timing, executed,
                 run_dir, raised>>

\* results[name] = ..., within the shapes the harness enters.
GatherProcResult(name) ==
  /\ GatherResult(name)
  /\ InputShape(results')

NextCompareProc ==
  \/ \E name \in CompareStages : GatherProcResult(name)
  \/ \E channel \in Channels : AddChannel(channel)
  \/ \E v \in ProcValues : ParseChannelValue(v)
  \/ CompareProc

SpecCompareProc == InitCompare /\ [][NextCompareProc]_vars

(***************************************************************************)
(* SpecCompare: both harnesses in one specification; top_type says which   *)
(* comparator the ResultSet being entered is for.                          *)
(***************************************************************************)
InitCompareEither ==
  /\ pc = "gather"
  /\ options \in { NoOptions, [NoOptions EXCEPT !.top_type = "proc"] }
  /\ inputs = NoInputs
  /\ Fresh

NextCompareEither ==
  \/ /\ options.top_type = "function"
     /\ \E name \in CompareStages : GatherResult(name)
  \/ /\ options.top_type = "function"
     /\ \E v \in Values : ParseValue(v)
  \/ /\ options.top_type = "function"
     /\ \E batch \in ArgsBatches : CompareFunction(batch)
  \/ /\ options.top_type = "proc"
     /\ \E name \in CompareStages : GatherProcResult(name)
  \/ /\ options.top_type = "proc"
     /\ \E channel \in Channels : AddChannel(channel)
  \/ /\ options.top_type = "proc"
     /\ \E v \in ProcValues : ParseChannelValue(v)
  \/ /\ options.top_type = "proc"
     /\ CompareProc

SpecCompare == InitCompareEither /\ [][NextCompareEither]_vars

(***************************************************************************)
(* Spec: one call of run_from_files, for every SampleOptions, every        *)
(* presence of the optional input files, and every outcome of the external *)
(* tools and of the DSLX interpreter.                                      *)
(***************************************************************************)
\* A plausible slip: the optimized IR is interpreted before it is run by
\* the JIT, as the unoptimized IR is.
CodeOrderInterpreterFirst ==
  << "interpret_dslx", "return", "convert_ir", "unoptimized_interpret_ir",
     "unoptimized_jit", "optimize", "optimized_interpret_ir", "optimized_jit",
     "codegen", "simulate", "compare" >>

\* The steps of _run_function and _run_proc in the order of the code;
\* "return" is the early return taken when convert_to_ir is false.
CodeOrder ==
  << "interpret_dslx", "return", "convert_ir", "unoptimized_interpret_ir",
     "unoptimized_jit", "optimize", "optimized_jit", "optimized_interpret_ir",
     "codegen", "simulate", "compare" >>

Position(stage) == CHOOSE k \in 1..Len(CodeOrder) : CodeOrder[k] = stage

\* A plausible slip: the unoptimized IR is evaluated whether or not an args
\* file was given.
RunsFunctionEvaluatesWithoutArgs(opts, inp, batch, stage) ==
  CASE stage = "interpret_dslx" -> opts.input_is_dslx /\ Truthy(batch)
    [] stage = "return" -> opts.input_is_dslx /\ ~opts.convert_to_ir
    [] stage = "convert_ir" -> opts.input_is_dslx
    [] stage = "unoptimized_interpret_ir" -> TRUE
    [] stage = "unoptimized_jit" -> inp.args_filename /\ opts.use_jit
    [] stage = "optimize" -> opts.optimize_ir
    [] stage = "optimized_jit" ->
         opts.optimize_ir /\ inp.args_filename /\ opts.use_jit
    [] stage = "optimized_interpret_ir" ->
         opts.optimize_ir /\ inp.args_filename
    [] stage = "codegen" -> opts.optimize_ir /\ opts.codegen
    [] stage = "simulate" ->
         opts.optimize_ir /\ opts.codegen /\ opts.simulate
    [] stage = "compare" -> TRUE

\* A plausible slip: the interpreter evaluates the unoptimized IR only when
\* the JIT does not.
RunsFunctionInterpreterUnlessJit(opts, inp, batch, stage) ==
  CASE stage = "interpret_dslx" -> opts.input_is_dslx /\ Truthy(batch)
    [] stage = "return" -> opts.input_is_dslx /\ ~opts.convert_to_ir
    [] stage = "convert_ir" -> opts.input_is_dslx
    [] stage = "unoptimized_interpret_ir" ->
         inp.args_filename /\ ~opts.use_jit
    [] stage = "unoptimized_jit" -> inp.args_filename /\ opts.use_jit
    [] stage = "optimize" -> opts.optimize_ir
    [] stage = "optimized_jit" ->
         opts.optimize_ir /\ inp.args_filename /\ opts.use_jit
    [] stage = "optimized_interpret_ir" ->
         opts.optimize_ir /\ inp.args_filename
    [] stage = "codegen" -> opts.optimize_ir /\ opts.codegen
    [] stage = "simulate" ->
         opts.optimize_ir /\ opts.codegen /\ opts.simulate
    [] stage = "compare" -> TRUE

\* A plausible slip: the early return is indented into the `if args_batch`
\* block, so a sample without args is converted whatever convert_to_ir says.
RunsFunctionReturnInsideArgsBlock(opts, inp, batch, stage) ==
  CASE stage = "interpret_dslx" -> opts.input_is_dslx /\ Truthy(batch)
    [] stage = "return" ->
         opts.input_is_dslx /\ Truthy(batch) /\ ~opts.convert_to_ir
    [] stage = "convert_ir" -> opts.input_is_dslx
    [] stage = "unoptimized_interpret_ir" -> inp.args_filename
    [] stage = "unoptimized_jit" -> inp.args_filename /\ opts.use_jit
    [] stage = "optimize" -> opts.optimize_ir
    [] stage = "optimized_jit" ->
         opts.optimize_ir /\ inp.args_filename /\ opts.use_jit
    [] stage = "optimized_interpret_ir" ->
         opts.optimize_ir /\ inp.args_filename
    [] stage = "codegen" -> opts.optimize_ir /\ opts.codegen
    [] stage = "simulate" ->
         opts.optimize_ir /\ opts.codegen /\ opts.simulate
    [] stage = "compare" -> TRUE

\* A plausible slip: the codegen block is dedented out of the
\* `if options.optimize_ir` block.
RunsFunctionCodegenOutsideOptimize(opts, inp, batch, stage) ==
  CASE stage = "interpret_dslx" -> opts.input_is_dslx /\ Truthy(batch)
    [] stage = "return" -> opts.input_is_dslx /\ ~opts.convert_to_ir
    [] stage = "convert_ir" -> opts.input_is_dslx
    [] stage = "unoptimized_interpret_ir" -> inp.args_filename
    [] stage = "unoptimized_jit" -> inp.args_filename /\ opts.use_jit
    [] stage = "optimize" -> opts.optimize_ir
    [] stage = "optimized_jit" ->
         opts.optimize_ir /\ inp.args_filename /\ opts.use_jit
    [] stage = "optimized_interpret_ir" ->
         opts.optimize_ir /\ inp.args_filename
    [] stage = "codegen" -> opts.codegen
    [] stage = "simulate" -> opts.codegen /\ opts.simulate
    [] stage = "compare" -> TRUE

\* A plausible slip: the simulation is skipped without an args file, like
\* the evaluations.
RunsFunctionSimulateNeedsArgs(opts, inp, batch, stage) ==
  CASE stage = "interpret_dslx" -> opts.input_is_dslx /\ Truthy(batch)
    [] stage = "return" -> opts.input_is_dslx /\ ~opts.convert_to_ir
    [] stage = "convert_ir" -> opts.input_is_dslx
    [] stage = "unoptimized_interpret_ir" -> inp.args_filename
    [] stage = "unoptimized_jit" -> inp.args_filename /\ opts.use_jit
    [] stage = "optimize" -> opts.optimize_ir
    [] stage = "optimized_jit" ->
         opts.optimize_ir /\ inp.args_filename /\ opts.use_jit
    [] stage = "optimized_interpret_ir" ->
         opts.optimize_ir /\ inp.args_filename
    [] stage = "codegen" -> opts.optimize_ir /\ opts.codegen
    [] stage = "simulate" ->
         opts.optimize_ir /\ opts.codegen /\ opts.simulate
           /\ inp.args_filename
    [] stage = "compare" -> TRUE

\* A plausible slip: the JIT evaluations run whatever use_jit says.
RunsFunctionJitUngated(opts, inp, batch, stage) ==
  CASE stage = "interpret_dslx" -> opts.input_is_dslx /\ Truthy(batch)
    [] stage = "return" -> opts.input_is_dslx /\ ~opts.convert_to_ir
    [] stage = "convert_ir" -> opts.input_is_dslx
    [] stage = "unoptimized_interpret_ir" -> inp.args_filename
    [] stage = "unoptimized_jit" -> inp.args_filename
    [] stage = "optimize" -> opts.optimize_ir
    [] stage = "optimized_jit" -> opts.optimize_ir /\ inp.args_filename
    [] stage = "optimized_interpret_ir" ->
         opts.optimize_ir /\ inp.args_filename
    [] stage = "codegen" -> opts.optimize_ir /\ opts.codegen
    [] stage = "simulate" ->
         opts.optimize_ir /\ opts.codegen /\ opts.simulate
    [] stage = "compare" -> TRUE

\* The conditions under which _run_function reaches each step, provided the
\* steps before it did not raise.
RunsFunction(opts, inp, batch, stage) ==
  CASE stage = "interpret_dslx" -> opts.input_is_dslx /\ Truthy(batch)
    [] stage = "return" -> opts.input_is_dslx /\ ~opts.convert_to_ir
    [] stage = "convert_ir" -> opts.input_is_dslx
    [] stage = "unoptimized_interpret_ir" -> inp.args_filename
    [] stage = "unoptimized_jit" -> inp.args_filename /\ opts.use_jit
    [] stage = "optimize" -> opts.optimize_ir
    [] stage = "optimized_jit" ->
         opts.optimize_ir /\ inp.args_filename /\ opts.use_jit
    [] stage = "optimized_interpret_ir" ->
         opts.optimize_ir /\ inp.args_filename
    [] stage = "codegen" -> opts.optimize_ir /\ opts.codegen
    [] stage = "simulate" ->
         opts.optimize_ir /\ opts.codegen /\ opts.simulate
    [] stage = "compare" -> TRUE

\* A plausible slip: _run_proc leaves out the JIT evaluations.
RunsProcWithoutJit(opts, inp, batch, stage) ==
  CASE stage = "interpret_dslx" -> opts.input_is_dslx /\ Truthy(batch)
    [] stage = "return" -> opts.input_is_dslx /\ ~opts.convert_to_ir
    [] stage = "convert_ir" -> opts.input_is_dslx
    [] stage = "unoptimized_interpret_ir" -> inp.args_filename
    [] stage = "unoptimized_jit" -> FALSE
    [] stage = "optimize" -> opts.optimize_ir
    [] stage = "optimized_jit" -> FALSE
    [] stage = "optimized_interpret_ir" ->
         opts.optimize_ir /\ inp.args_filename
    [] stage = "codegen" -> opts.optimize_ir /\ opts.codegen
    [] stage = "simulate" ->
         opts.optimize_ir /\ opts.codegen /\ opts.simulate
    [] stage = "compare" -> TRUE

\* The same for _run_proc.
RunsProc(opts, inp, batch, stage) ==
  CASE stage = "interpret_dslx" -> opts.input_is_dslx /\ Truthy(batch)
    [] stage = "return" -> opts.input_is_dslx /\ ~opts.convert_to_ir
    [] stage = "convert_ir" -> opts.input_is_dslx
    [] stage = "unoptimized_interpret_ir" -> inp.args_filename
    [] stage = "unoptimized_jit" -> inp.args_filename /\ opts.use_jit
    [] stage = "optimize" -> opts.optimize_ir
    [] stage = "optimized_jit" ->
         opts.optimize_ir /\ inp.args_filename /\ opts.use_jit
    [] stage = "optimized_interpret_ir" ->
         opts.optimize_ir /\ inp.args_filename
    [] stage = "codegen" -> opts.optimize_ir /\ opts.codegen
    [] stage = "simulate" ->
         opts.optimize_ir /\ opts.codegen /\ opts.simulate
    [] stage = "compare" -> TRUE

Runs(opts, inp, batch, stage) ==
  IF opts.top_type = "function" THEN RunsFunction(opts, inp, batch, stage)
  ELSE RunsProc(opts, inp, batch, stage)

\* The step the code reaches after position `from` of CodeOrder (0: the
\* start of _run_function / _run_proc); "done" for the early return.
StepAfter(opts, inp, batch, from) ==
  LET later == { k \in (from + 1)..Len(CodeOrder) :
                   Runs(opts, inp, batch, CodeOrder[k]) }
      k == CHOOSE j \in later : \A l \in later : j <= l
  IN  IF CodeOrder[k] = "return" THEN "done" ELSE CodeOrder[k]

NextStage(stage) == StepAfter(options, inputs, args_batch, Position(stage))

\* A plausible slip: the file is opened for exclusive creation, so an
\* existing file keeps its content.
_write_file_keeps_existing(dir, filename, writer) ==
  IF \E f \in dir : f[1] = filename THEN dir
  ELSE dir \cup { <<filename, writer>> }

\* _write_file: the file is created or overwritten.
_write_file(dir, filename, writer) ==
  { f \in dir : f[1] # filename } \cup { <<filename, writer>> }

\* What an external tool does with one invocation.
ToolOutcomes == { "ok", "nonzero_exit", "timeout" }

\* A plausible slip: a timeout is reported like a failed exit status.
_run_command_no_timeout_error(dir, tool, writer, how) ==
  [ dir |-> _write_file(dir, <<tool, ".stderr">>, writer),
    exc |-> IF how = "ok" THEN "none" ELSE "CalledProcessError" ]

\* A plausible slip: stderr is captured through a pipe and written to the
\* file once subprocess.run has returned, which it does not on a timeout.
_run_command_stderr_after_run(dir, tool, writer, how) ==
  [ dir |-> IF how = "timeout" THEN dir
            ELSE _write_file(dir, <<tool, ".stderr">>, writer),
    exc |-> CASE how = "ok" -> "none"
              [] how = "timeout" -> "TimeoutExpired"
              [] how = "nonzero_exit" -> "CalledProcessError" ]

\* _run_command: the stderr file is opened for writing, then
\* subprocess.run raises TimeoutExpired on a timeout and check_returncode
\* raises CalledProcessError on a non-zero exit status.
_run_command(dir, tool, writer, how) ==
  [ dir |-> _write_file(dir, <<tool, ".stderr">>, writer),
    exc |-> CASE how = "ok" -> "none"
              [] how = "timeout" -> "TimeoutExpired"
              [] how = "nonzero_exit" -> "CalledProcessError" ]

\* A plausible slip: every subprocess error counts as a timeout.
is_timeout_any_subprocess_error(exc) ==
  exc \in { "TimeoutExpired", "CalledProcessError" }

\* isinstance(e, subprocess.TimeoutExpired)
is_timeout(exc) == exc = "TimeoutExpired"

\* The except clause of run_from_files: what it raises for exception `exc`
\* raised at step `at` (cause: what went wrong there).
SampleError(at, exc, cause) ==
  [ kind |-> "SampleError", is_timeout |-> is_timeout(exc), exc |-> exc,
    cause |-> cause, at |-> at ]

\* A stage ran to its end: its result (if it has one) is entered, its
\* timing is recorded and the code goes on.
Finish(stage, dir, entries) ==
  /\ executed' = Append(executed, stage)
  /\ results' = results \o entries
  /\ timing' = timing \cup { stage }
  /\ run_dir' = dir
  /\ pc' = NextStage(stage)
  /\ UNCHANGED <<options, inputs, args_batch, raised, outcome>>

\* A plausible slip: the exception of a stage is swallowed and the run goes
\* on with the next stage.
AbortSwallowed(stage, dir, exc, cause) ==
  /\ executed' = Append(executed, stage)
  /\ run_dir' = _write_file(dir, <<"exception.txt">>, stage)
  /\ raised' = SampleError(stage, exc, cause)
  /\ pc' = NextStage(stage)
  /\ UNCHANGED <<options, inputs, args_batch, results, timing, outcome>>

\* A stage raised: the exception leaves _run_function / _run_proc, the
\* except clause writes exception.txt and raises SampleError.
Abort(stage, dir, exc, cause) ==
  /\ executed' = Append(executed, stage)
  /\ run_dir' = _write_file(dir, <<"exception.txt">>, stage)
  /\ raised' = SampleError(stage, exc, cause)
  /\ pc' = "done"
  /\ UNCHANGED <<options, inputs, args_batch, results, timing, outcome>>

\* The results the model lets the tools and the interpreter produce for a
\* batch of n argument vectors: n copies of one Value, or (a tool) nothing.
Copies(n, v) == [i \in 1..n |-> v]

ToolOutputs(n) ==
  { Copies(n, v) : v \in { Value(8, 5, FALSE), Value(8, 6, FALSE) } }
    \cup { <<>> }

DslxOutputs(n) ==
  { Copies(n, v) : v \in { Value(8, 5, TRUE), Value(8, 6, FALSE) } }

\* In proc mode a result is a dict of channels; the model's procs have the
\* one output channel "out".
AsResult(top_type, values) ==
  IF top_type = "function" THEN values ELSE << Entry("out", values) >>

AllOptions ==
  [ top_type : { "function", "proc" }, input_is_dslx : BOOLEAN,
    convert_to_ir : BOOLEAN, optimize_ir : BOOLEAN, use_jit : BOOLEAN,
    codegen : BOOLEAN, simulate : BOOLEAN ]

\* SampleRunner.run hands the channel names and the initial values of a
\* proc sample to run_from_files.
AllInputs(opts) ==
  { inp \in [ args_filename : BOOLEAN, ir_channel_names_filename : BOOLEAN,
              proc_init_values_filename : BOOLEAN,
              args_match_channels : BOOLEAN ] :
      /\ opts.top_type = "function" =>
           ~inp.ir_channel_names_filename /\ ~inp.proc_init_values_filename
      /\ ~inp.args_match_channels =>
           inp.args_filename /\ inp.ir_channel_names_filename }

\* The files SampleRunner.run writes before it calls run_from_files.
InputFiles(opts, inp) ==
  { << <<IF opts.input_is_dslx THEN "sample.x" ELSE "sample.ir">>, "run" >>,
    << <<"options.json">>, "run" >> }
  \cup (IF inp.args_filename THEN { << <<"args.txt">>, "run" >> } ELSE {})
  \cup (IF inp.ir_channel_names_filename
        THEN { << <<"ir_channel_names.txt">>, "run" >> } ELSE {})
  \cup (IF inp.proc_init_values_filename
        THEN { << <<"proc_init_values.txt">>, "run" >> } ELSE {})

Init ==
  /\ pc = "start"
  /\ options \in AllOptions
  /\ inputs \in AllInputs(options)
  /\ results = <<>>
  /\ args_batch = NoArgsBatch
  /\ timing = {}
  /\ executed = <<>>
  /\ run_dir = InputFiles(options, inputs)
  /\ raised = NotRaised
  /\ outcome = NotCompared

\* run_from_files up to the try statement: the options are parsed (outside
\* the try: a failure leaves run_from_files as it is) and revision.txt is
\* written.
ReadOptions ==
  /\ pc = "start"
  /\ \/ /\ raised' = [ kind |-> "escaped", is_timeout |-> FALSE,
                       exc |-> "ValueError", cause |-> "malformed_options",
                       at |-> "start" ]
        /\ pc' = "done"
        /\ UNCHANGED run_dir
     \/ /\ run_dir' = _write_file(run_dir, <<"revision.txt">>, "run_from_files")
        /\ pc' = "load"
        /\ UNCHANGED raised
  /\ UNCHANGED <<options, inputs, args_batch, results, timing, executed,
                 outcome>>

\* The head of _run_function / _run_proc: the input files are read and
\* parsed; IR input is written to sample.ir.
Load ==
  /\ pc = "load"
  /\ \/ \E n \in 0..MaxBatch :
          LET batch == IF inputs.args_filename THEN ArgsBatch(n)
                       ELSE NoArgsBatch
          IN  /\ inputs.args_filename \/ n = 0
              /\ args_batch' = batch
              /\ pc' = StepAfter(options, inputs, batch, 0)
              /\ run_dir' = IF options.input_is_dslx THEN run_dir
                            ELSE _write_file(run_dir, <<"sample.ir">>, "load")
              /\ UNCHANGED raised
     \/ /\ \/ inputs.args_filename
           \/ inputs.ir_channel_names_filename
           \/ inputs.proc_init_values_filename
        /\ raised' = SampleError("load", "XlsError", "malformed_input")
        /\ run_dir' = _write_file(run_dir, <<"exception.txt">>, "load")
        /\ pc' = "done"
        /\ UNCHANGED args_batch
  /\ UNCHANGED <<options, inputs, results, timing, executed, outcome>>

\* _interpret_dslx_function / _interpret_dslx_proc, in process.
InterpretDslx ==
  /\ pc = "interpret_dslx"
  /\ \/ \E out \in DslxOutputs(args_batch.len) :
          Finish("interpret_dslx",
                 _write_file(run_dir, <<"sample.x", ".results">>, "interpret_dslx"),
                 << Entry("interpreted DSLX", AsResult(options.top_type, out)) >>)
     \/ Abort("interpret_dslx", run_dir, "XlsError", "exception")

\* _dslx_to_ir_function / _dslx_to_ir_proc; the latter iterates over
\* proc_init_values, which is None when no file was given.
ConvertToIr ==
  /\ pc = "convert_ir"
  /\ IF options.top_type = "proc" /\ ~inputs.proc_init_values_filename
     THEN Abort("convert_ir", run_dir, "TypeError", "exception")
     ELSE \E how \in ToolOutcomes :
            LET cmd == _run_command(run_dir, "ir_converter_main", "convert_ir", how)
            IN  IF cmd.exc # "none"
                THEN Abort("convert_ir", cmd.dir, cmd.exc, how)
                ELSE Finish("convert_ir",
                            _write_file(cmd.dir, <<"sample.ir">>, "convert_ir"),
                            <<>>)

\* _evaluate_ir_function / _evaluate_ir_proc on ir_filename, as step `stage`
\* entering its result under `key`.
EvaluateIr(stage, key, ir_filename) ==
  IF options.top_type = "proc" /\ ~inputs.ir_channel_names_filename
  THEN Abort(stage, run_dir, "TypeError", "exception")
  ELSE IF options.top_type = "proc" /\ args_batch.len > 0
          /\ ~inputs.args_match_channels
  THEN Abort(stage, run_dir, "AssertionError", "exception")
  ELSE \E how \in ToolOutcomes :
         LET dir == IF options.top_type = "proc"
                    THEN _write_file(run_dir, <<"channel_inputs.txt">>, stage)
                    ELSE run_dir
             tool == IF options.top_type = "proc" THEN "eval_proc_main"
                     ELSE "eval_ir_main"
             cmd == _run_command(dir, tool, stage, how)
             written == _write_file(cmd.dir, <<ir_filename, ".results">>, stage)
         IN  IF cmd.exc # "none" THEN Abort(stage, cmd.dir, cmd.exc, how)
             ELSE \/ \E out \in ToolOutputs(args_batch.len) :
                       Finish(stage, written,
                              << Entry(key, AsResult(options.top_type, out)) >>)
                  \/ Abort(stage, written, "XlsError", "exception")

EvaluateUnoptInterpreter ==
  /\ pc = "unoptimized_interpret_ir"
  /\ EvaluateIr("unoptimized_interpret_ir",
                "evaluated unopt IR (interpreter)", "sample.ir")

EvaluateUnoptJit ==
  /\ pc = "unoptimized_jit"
  /\ EvaluateIr("unoptimized_jit", "evaluated unopt IR (JIT)", "sample.ir")

\* _optimize_ir
OptimizeIr ==
  /\ pc = "optimize"
  /\ \E how \in ToolOutcomes :
       LET cmd == _run_command(run_dir, "opt_main", "optimize", how)
       IN  IF cmd.exc # "none" THEN Abort("optimize", cmd.dir, cmd.exc, how)
           ELSE Finish("optimize",
                       _write_file(cmd.dir, <<"sample.opt.ir">>, "optimize"),
                       <<>>)

EvaluateOptJit ==
  /\ pc = "optimized_jit"
  /\ EvaluateIr("optimized_jit", "evaluated opt IR (JIT)", "sample.opt.ir")

EvaluateOptInterpreter ==
  /\ pc = "optimized_interpret_ir"
  /\ EvaluateIr("optimized_interpret_ir", "evaluated opt IR (interpreter)",
                "sample.opt.ir")

\* _codegen
Codegen ==
  /\ pc = "codegen"
  /\ \E how \in ToolOutcomes :
       LET cmd == _run_command(run_dir, "codegen_main", "codegen", how)
       IN  IF cmd.exc # "none" THEN Abort("codegen", cmd.dir, cmd.exc, how)
           ELSE Finish("codegen",
                       _write_file(cmd.dir, <<"sample.v">>, "codegen"), <<>>)

\* A plausible slip: _simulate_proc is a stub that returns no channels
\* instead of raising.
SimulateProcReturnsNothing ==
  /\ pc = "simulate"
  /\ IF ~inputs.args_filename
     THEN Abort("simulate", run_dir, "AssertionError", "exception")
     ELSE IF options.top_type = "proc"
     THEN Finish("simulate", run_dir, << Entry("simulated", <<>>) >>)
     ELSE \/ Abort("simulate", run_dir, "XlsError", "exception")
          \/ \E how \in ToolOutcomes :
               LET cmd == _run_command(run_dir, "simulate_module_main",
                                       "simulate", how)
                   written == _write_file(cmd.dir, <<"sample.v", ".results">>,
                                          "simulate")
               IN  IF cmd.exc # "none"
                   THEN Abort("simulate", cmd.dir, cmd.exc, how)
                   ELSE \/ \E out \in ToolOutputs(args_batch.len) :
                             Finish("simulate", written,
                                    << Entry("simulated", out) >>)
                        \/ Abort("simulate", written, "XlsError", "exception")

\* assert args_filename is not None, then _simulate_function (which checks
\* the simulator, runs it and parses its output) or _simulate_proc (which
\* raises SampleError).
Simulate ==
  /\ pc = "simulate"
  /\ IF ~inputs.args_filename
     THEN Abort("simulate", run_dir, "AssertionError", "exception")
     ELSE IF options.top_type = "proc"
     THEN Abort("simulate", run_dir, "SampleError", "unsupported")
     ELSE \/ Abort("simulate", run_dir, "XlsError", "exception")
          \/ \E how \in ToolOutcomes :
               LET cmd == _run_command(run_dir, "simulate_module_main",
                                       "simulate", how)
                   written == _write_file(cmd.dir, <<"sample.v", ".results">>,
                                          "simulate")
               IN  IF cmd.exc # "none"
                   THEN Abort("simulate", cmd.dir, cmd.exc, how)
                   ELSE \/ \E out \in ToolOutputs(args_batch.len) :
                             Finish("simulate", written,
                                    << Entry("simulated", out) >>)
                        \/ Abort("simulate", written, "XlsError", "exception")

\* The exception a comparator outcome stands for.
ExceptionOf(kind) == IF IsSampleErrorKind(kind) THEN "SampleError" ELSE kind

\* self._compare_results_function(results, args_batch) /
\* self._compare_results_proc(results), the last statement of the run.
Compare ==
  /\ pc = "compare"
  /\ LET o == IF options.top_type = "function"
              THEN _compare_results_function(results, args_batch)
              ELSE _compare_results_proc(results)
     IN  /\ outcome' = o
         /\ IF o.kind = "return"
            THEN UNCHANGED <<raised, run_dir>>
            ELSE /\ raised' = SampleError("compare", ExceptionOf(o.kind),
                                          IF IsSampleErrorKind(o.kind)
                                          THEN "miscompare" ELSE "exception")
                 /\ run_dir' = _write_file(run_dir, <<"exception.txt">>, "compare")
  /\ executed' = Append(executed, "compare")
  /\ pc' = "done"
  /\ UNCHANGED <<options, inputs, args_batch, results, timing>>

Next ==
  \/ ReadOptions
  \/ Load
  \/ InterpretDslx
  \/ ConvertToIr
  \/ EvaluateUnoptInterpreter
  \/ EvaluateUnoptJit
  \/ OptimizeIr
  \/ EvaluateOptJit
  \/ EvaluateOptInterpreter
  \/ Codegen
  \/ Simulate
  \/ Compare

Spec == Init /\ [][Next]_vars

(***************************************************************************)
(* Properties of the comparators.                                          *)
(***************************************************************************)
Range(q) == { q[k] : k \in 1..Len(q) }

\* The equality of section 3: same width and same bit pattern.
SignAgnosticEqual(a, b) == a.w = b.w /\ a.b = b.b

ElementwiseEqual(p, q) ==
  /\ Len(p) = Len(q)
  /\ \A i \in 1..Len(p) : SignAgnosticEqual(p[i], q[i])

\* The stage names of the ResultSet in lexicographic order; the first is the
\* reference.
Lexicographic == InStageOrder(Keys(results))

\* The precondition assertion of _compare_results_function passes.
AssertionPasses ==
  Len(results) > 0 /\ Truthy(args_batch)
    => Len(results[1].values) = args_batch.len

\* Every stage's sequence has the length of the batch.
Consistent ==
  /\ args_batch.given
  /\ \A k \in 1..Len(results) : Len(results[k].values) = args_batch.len

\* C1: function mode, for a ResultSet and an ArgsBatch that are consistent:
\* the comparator returns without error if and only if every stage's
\* sequence is element-wise equal, sign-agnostically, to every other's.
C1_FunctionReturnsIffEqual ==
  pc = "compared" /\ Consistent =>
    ( outcome.kind = "return" <=>
        \A j, k \in 1..Len(results) :
          ElementwiseEqual(results[j].values, results[k].values) )

\* Three stages of one value each are compared with a batch of one and
\* accepted although one of them carries a signed value.
C1_Witness ==
  /\ pc = "compared" /\ Consistent
  /\ Len(results) = 3 /\ args_batch.len = 1
  /\ outcome.kind = "return"
  /\ \E j, k \in 1..Len(results) : results[j].values # results[k].values

\* Two stages differ in length.
LengthsDiffer ==
  \E j, k \in 1..Len(results) :
    Len(results[j].values) # Len(results[k].values)

\* C3 as stated: whenever two stages differ in length the comparator raises
\* the length error, naming two stages and their lengths, before any element
\* comparison.  (Stated for the runs in which the precondition assertion
\* passes and every stage has an element at every index the comparator
\* reads.)
C3_LengthErrorWheneverLengthsDiffer ==
  pc = "compared" /\ AssertionPasses /\ LengthsDiffer
     /\ outcome.kind # "IndexError" =>
    /\ outcome.kind = "length"
    /\ outcome.ref_len = Len(Lookup(results, outcome.reference))
    /\ outcome.len = Len(Lookup(results, outcome.name))
    /\ outcome.ref_len # outcome.len
    /\ outcome.compared = <<>>

\* The position in Lexicographic of the first stage that is not
\* element-wise equal to the reference, or 0.
FirstDeviating ==
  LET names == Lexicographic
      dev == { k \in 2..Len(names) :
                 ~ElementwiseEqual(Lookup(results, names[1]),
                                   Lookup(results, names[k])) }
  IN  IF dev = {} THEN 0 ELSE CHOOSE k \in dev : \A j \in dev : k <= j

\* C3, amended: when the precondition assertion passes and the
\* lexicographically first stage that is not element-wise equal to the
\* reference differs from it in length, the comparator raises the length
\* error naming the reference, that stage and both lengths, before any
\* element of that stage is compared.
C3_LengthErrorAtFirstDeviation ==
  pc = "compared" /\ AssertionPasses /\ FirstDeviating # 0 =>
    LET names == Lexicographic
        ref   == Lookup(results, names[1])
        cand  == Lookup(results, names[FirstDeviating])
    IN  Len(ref) # Len(cand) =>
          /\ outcome.kind = "length"
          /\ outcome.reference = names[1]
          /\ outcome.name = names[FirstDeviating]
          /\ outcome.ref_len = Len(ref)
          /\ outcome.len = Len(cand)
          /\ \A e \in Range(outcome.compared) : e[1] # names[FirstDeviating]

\* The third stage in lexicographic order is the first to deviate, by its
\* length, after the second was compared element by element; the reference
\* is not the first result gathered.
C3_Witness ==
  /\ pc = "compared" /\ AssertionPasses
  /\ Len(results) = 3 /\ FirstDeviating = 3
  /\ outcome.kind = "length"
  /\ outcome.ref_len = 1 /\ outcome.len = 2
  /\ outcome.compared # <<>>
  /\ outcome.reference # results[1].name

\* The stages whose value at index i equals, sign-agnostically, that of
\* stage `name`.
Agreeing(name, i) ==
  { n \in Keys(results) :
      SignAgnosticEqual(Lookup(results, n)[i + 1],
                        Lookup(results, name)[i + 1]) }

\* C4: when a value mismatch at index i is reported, the first group is
\* exactly the stages whose value at i equals the reference's and the second
\* exactly those whose value at i equals the candidate's; a stage equal to
\* neither is in neither.
C4_GroupsAreAgreeingStages ==
  pc = "compared" /\ outcome.kind = "miscompare" =>
    /\ Range(outcome.reference_matches) = Agreeing(outcome.reference, outcome.index)
    /\ Range(outcome.values_matches) = Agreeing(outcome.name, outcome.index)
    /\ Len(outcome.reference_matches) = Cardinality(Agreeing(outcome.reference, outcome.index))
    /\ Len(outcome.values_matches) = Cardinality(Agreeing(outcome.name, outcome.index))

\* A mismatch at index 0 among three stages: the third stage gathered agrees
\* with the reference, and (in another run) a stage agrees with neither.
C4_Witness ==
  /\ pc = "compared" /\ outcome.kind = "miscompare"
  /\ Len(results) = 3
  /\ Len(outcome.reference_matches) = 1
  /\ Len(outcome.values_matches) = 1
  /\ \E n \in Keys(results) :
       /\ n \notin Range(outcome.reference_matches)
       /\ n \notin Range(outcome.values_matches)

(***************************************************************************)
(* Properties of _compare_results_proc.                                    *)
(***************************************************************************)
\* The channels of stage `name`, and the sequence of one of them.
ChannelsOf(name) == Lookup(results, name)

\* Channel c (a position in the reference's dict) of the reference has a
\* counterpart in `channels` of the same length and equal elements.
ChannelMatches(ref_channels, channels, c) ==
  /\ ref_channels[c].name \in Keys(channels)
  /\ ElementwiseEqual(ref_channels[c].values,
                      Lookup(channels, ref_channels[c].name))

\* No check of the scan fails for a candidate with these channels.
StageMatches(ref_channels, channels) ==
  /\ Len(ref_channels) = Len(channels)
  /\ \A c \in 1..Len(ref_channels) : ChannelMatches(ref_channels, channels, c)

\* The scan reaches channel c of the candidate at position k of
\* Lexicographic without having met a violation.
FirstViolationAt(k, c) ==
  LET names == Lexicographic
      ref   == ChannelsOf(names[1])
      cand  == ChannelsOf(names[k])
  IN  /\ \A j \in 2..(k - 1) : StageMatches(ref, ChannelsOf(names[j]))
      /\ Len(ref) = Len(cand)
      /\ \A d \in 1..(c - 1) : ChannelMatches(ref, cand, d)

\* C2: proc mode: the comparator returns without error if and only if all
\* stages have the same set of channel names and, for every channel, all
\* stages' sequences have equal length and sign-agnostically equal elements.
C2_ProcReturnsIffEqual ==
  pc = "compared" =>
    ( outcome.kind = "return" <=>
        \A j, k \in 1..Len(results) :
          /\ Keys(results[j].values) = Keys(results[k].values)
          /\ \A ch \in Keys(results[j].values) :
               ElementwiseEqual(Lookup(results[j].values, ch),
                                Lookup(results[k].values, ch)) )

\* Three stages with the same two channels are accepted although their
\* results are not identical (a sign tag or the order of the channels
\* differs).
C2_Witness ==
  /\ pc = "compared" /\ outcome.kind = "return"
  /\ Len(results) = 3
  /\ Len(results[1].values) = 2
  /\ SumProcLen(results) = 3
  /\ results[1].values # results[2].values

\* Some channel of the reference is absent from the candidate at position k.
MissingAt(k, c) ==
  LET names == Lexicographic
  IN  ChannelsOf(names[1])[c].name \notin Keys(ChannelsOf(names[k]))

\* C5 as stated: whenever a channel of the reference is absent from a
\* candidate stage, the error raised names such a channel and stage: it is
\* the missing-channel error for them, or the channel-count error for that
\* stage, which lists the reference's channels.
C5_MissingChannelAlwaysNamed ==
  pc = "compared" /\ Len(results) >= 2
     /\ (\E k \in 2..Len(results) :
           \E c \in 1..Len(ChannelsOf(Lexicographic[1])) : MissingAt(k, c)) =>
    \E k \in 2..Len(results) :
      \E c \in 1..Len(ChannelsOf(Lexicographic[1])) :
        /\ MissingAt(k, c)
        /\ outcome.name = Lexicographic[k]
        /\ \/ /\ outcome.kind = "missing_channel"
              /\ outcome.channel = ChannelsOf(Lexicographic[1])[c].name
           \/ outcome.kind = "channel_count"

\* C5, amended: whenever a channel of the reference is absent from a
\* candidate stage the comparator raises a SampleError; it is the
\* missing-channel error naming that channel and that stage when no
\* violation precedes it in the scan (every earlier candidate matches the
\* reference, the candidate has as many channels as the reference, and the
\* reference's earlier channels match in the candidate).
C5_MissingChannelNamedWhenFirst ==
  pc = "compared" /\ Len(results) >= 2 =>
    \A k \in 2..Len(results) :
      \A c \in 1..Len(ChannelsOf(Lexicographic[1])) :
        MissingAt(k, c) =>
          /\ IsSampleErrorKind(outcome.kind)
          /\ FirstViolationAt(k, c) =>
               /\ outcome.kind = "missing_channel"
               /\ outcome.reference = Lexicographic[1]
               /\ outcome.name = Lexicographic[k]
               /\ outcome.channel = ChannelsOf(Lexicographic[1])[c].name

\* The second channel of the reference is the one missing from the
\* candidate, after the first was compared element by element.
C5_Witness ==
  /\ pc = "compared" /\ Len(results) = 2
  /\ Len(ChannelsOf(Lexicographic[1])) = 2
  /\ MissingAt(2, 2) /\ FirstViolationAt(2, 2)
  /\ outcome.kind = "missing_channel"
  /\ outcome.compared # <<>>

\* The candidate at position k has the reference's channels, and the
\* reference's channel c has another length in it.
LengthDiffersAt(k, c) ==
  LET names == Lexicographic
      ref   == ChannelsOf(names[1])
      cand  == ChannelsOf(names[k])
  IN  /\ Keys(ref) = Keys(cand)
      /\ Len(ref[c].values) # Len(Lookup(cand, ref[c].name))

\* C6 as stated: whenever a candidate with the reference's channels has a
\* channel of another length, the error raised is the length error of such a
\* channel, with both lengths, raised before any element of that channel is
\* compared.
C6_ChannelLengthAlwaysCited ==
  pc = "compared" /\ Len(results) >= 2
     /\ (\E k \in 2..Len(results) :
           \E c \in 1..Len(ChannelsOf(Lexicographic[1])) :
             LengthDiffersAt(k, c)) =>
    \E k \in 2..Len(results) :
      \E c \in 1..Len(ChannelsOf(Lexicographic[1])) :
        /\ LengthDiffersAt(k, c)
        /\ outcome.kind = "channel_length"
        /\ outcome.name = Lexicographic[k]
        /\ outcome.channel = ChannelsOf(Lexicographic[1])[c].name

\* C6, amended: whenever a candidate with the reference's channels has a
\* channel of another length the comparator raises a SampleError; it is the
\* length error citing that channel and both lengths, raised before any
\* element of that channel of that stage is compared, when no violation
\* precedes it in the scan.
C6_ChannelLengthCitedWhenFirst ==
  pc = "compared" /\ Len(results) >= 2 =>
    \A k \in 2..Len(results) :
      \A c \in 1..Len(ChannelsOf(Lexicographic[1])) :
        LengthDiffersAt(k, c) =>
          /\ IsSampleErrorKind(outcome.kind)
          /\ FirstViolationAt(k, c) =>
               LET ref == ChannelsOf(Lexicographic[1])[c]
               IN  /\ outcome.kind = "channel_length"
                   /\ outcome.reference = Lexicographic[1]
                   /\ outcome.name = Lexicographic[k]
                   /\ outcome.channel = ref.name
                   /\ outcome.ref_len = Len(ref.values)
                   /\ outcome.len =
                        Len(Lookup(ChannelsOf(Lexicographic[k]), ref.name))
                   /\ \A e \in Range(outcome.compared) :
                        ~(e[1] = Lexicographic[k] /\ e[2] = ref.name)

\* Scenario C: the reference's channel "in" has two entries and the
\* candidate's has one, and the first entries agree.
C6_Witness ==
  /\ pc = "compared" /\ Len(results) = 2
  /\ outcome.kind = "channel_length"
  /\ outcome.channel = "in"
  /\ outcome.ref_len = 2 /\ outcome.len = 1
  /\ LengthDiffersAt(2, 1) /\ FirstViolationAt(2, 1)

(***************************************************************************)
(* Properties of the pipeline (specification Spec).                        *)
(***************************************************************************)
Executed == Range(executed)

\* C7: a stage gated by a flag never executes when the flag is false.
C7_GatedStagesNeedTheirFlag ==
  /\ ~options.input_is_dslx =>
       Executed \cap { "interpret_dslx", "convert_ir" } = {}
  /\ ~options.convert_to_ir => "convert_ir" \notin Executed
  /\ ~options.use_jit =>
       Executed \cap { "unoptimized_jit", "optimized_jit" } = {}
  /\ ~options.optimize_ir =>
       Executed \cap { "optimize", "optimized_jit",
                       "optimized_interpret_ir" } = {}
  /\ ~options.codegen => "codegen" \notin Executed
  /\ ~options.simulate => "simulate" \notin Executed

\* A run with use_jit and simulate false and the other flags true went
\* through conversion, both interpreter evaluations, optimization and
\* codegen to the comparison, whose stages all succeeded.
C7_Witness ==
  /\ pc = "done" /\ raised.kind = "none"
  /\ ~options.use_jit /\ ~options.simulate
  /\ executed = << "interpret_dslx", "convert_ir", "unoptimized_interpret_ir",
                   "optimize", "optimized_interpret_ir", "codegen",
                   "compare" >>

\* The fixed order of the stages.
StageSequence ==
  << "interpret_dslx", "convert_ir", "unoptimized_interpret_ir",
     "unoptimized_jit", "optimize", "optimized_jit", "optimized_interpret_ir",
     "codegen", "simulate", "compare" >>

Rank(stage) == CHOOSE k \in 1..Len(StageSequence) : StageSequence[k] = stage

\* C8: the stages that execute form a strictly increasing subsequence of the
\* fixed order (so none executes twice), and the comparator runs last, after
\* every stage that executed has completed.
C8_StagesInFixedOrder ==
  /\ Executed \subseteq Range(StageSequence)
  /\ \A i, j \in 1..Len(executed) :
       i < j => Rank(executed[i]) < Rank(executed[j])
  /\ "compare" \in Executed =>
       /\ executed[Len(executed)] = "compare"
       /\ pc = "done"
       /\ Executed \ { "compare" } = timing

\* All ten stages executed, in order, in one run.
C8_Witness ==
  /\ pc = "done"
  /\ executed = StageSequence

\* C9: once a stage has failed, no later stage is started and the comparator
\* is not invoked: the run has ended with the SampleError, and no step is
\* ever taken after an error was raised.
C9_FailureEndsTheRun ==
  /\ [](raised.at \in Range(StageSequence) \ { "compare" } =>
          /\ raised.kind = "SampleError"
          /\ pc = "done"
          /\ executed[Len(executed)] = raised.at
          /\ "compare" \notin Executed
          /\ outcome = NotCompared)
  /\ [][raised.kind = "none"]_vars

\* The optimizer exited with a non-zero status after two results had been
\* gathered, with codegen requested.
C9_Witness ==
  /\ raised.at = "optimize" /\ raised.cause = "nonzero_exit"
  /\ Len(results) = 2
  /\ options.codegen
  /\ pc = "done"

\* C10: the SampleError raised has is_timeout true if and only if the run
\* was ended by a tool invocation that exceeded the timeout.
C10_TimeoutFlagIffToolTimedOut ==
  raised.kind = "SampleError" =>
    (raised.is_timeout <=> raised.cause = "timeout")

\* The JIT evaluation of the optimized IR timed out after three results had
\* been gathered.
C10_Witness ==
  /\ raised.kind = "SampleError" /\ raised.is_timeout
  /\ raised.at = "optimized_jit" /\ raised.cause = "timeout"
  /\ Len(results) = 3

(***************************************************************************)
(* Error handling of run_from_files (specification Spec).                  *)
(***************************************************************************)
\* The run ended with a failure: an exception left run_from_files.
Failed == pc = "done" /\ raised.kind # "none"

\* C11: every failure that ends run_from_files, of every kind (a malformed
\* options file included), reaches the caller as a SampleError, and no
\* failure of the comparator is swallowed.
C11_EveryFailureIsSampleError ==
  /\ Failed => raised.kind = "SampleError"
  /\ pc = "done" /\ outcome.kind \notin { "none", "return" } =>
       raised.kind = "SampleError"

\* exception.txt was written in this run.
ExceptionFileWritten == \E f \in run_dir : f[1] = <<"exception.txt">>

\* C12: exception.txt is written in a run if and only if the run ends with
\* an error; a run that succeeds never writes it.
C12_ExceptionFileIffError ==
  pc = "done" => (ExceptionFileWritten <=> raised.kind # "none")

(***************************************************************************)
(* Which stages a run executes (specification Spec).                       *)
(***************************************************************************)
\* The input files were read and parsed: the run got to its first stage.
InputsRead == raised.at \notin { "start", "load" }

\* C13 (scenario D): with no args file, convert_to_ir true and optimize_ir
\* false, whatever use_jit, codegen and simulate are: no stage other than
\* the conversion ever runs and the ResultSet stays empty; and unless the
\* conversion fails, the run ends without error, having executed exactly
\* the conversion (of DSLX input; IR input has none) and then the
\* comparator, which returned on the empty ResultSet.
C13_OnlyConversionRuns ==
  ~inputs.args_filename /\ options.convert_to_ir /\ ~options.optimize_ir
     /\ InputsRead =>
    /\ Executed \subseteq { "convert_ir", "compare" }
    /\ results = <<>>
    /\ pc = "done" /\ raised.at # "convert_ir" =>
         /\ raised.kind = "none"
         /\ executed = IF options.input_is_dslx
                       THEN << "convert_ir", "compare" >>
                       ELSE << "compare" >>
         /\ timing = Executed \ { "compare" }
         /\ outcome = Returned

\* A DSLX function sample without args, with use_jit, codegen and simulate
\* all true: the conversion succeeded and the comparator returned.
C13_Witness ==
  /\ pc = "done" /\ raised.kind = "none"
  /\ options.top_type = "function" /\ options.input_is_dslx
  /\ ~inputs.args_filename /\ options.convert_to_ir /\ ~options.optimize_ir
  /\ options.use_jit /\ options.codegen /\ options.simulate
  /\ executed = << "convert_ir", "compare" >>
  /\ outcome = Returned

\* No stage before the evaluation of the unoptimized IR failed.
NoEarlierFailure ==
  InputsRead /\ raised.at \notin { "interpret_dslx", "convert_ir" }

\* C14 as stated: in every run with an args file in which no earlier stage
\* fails, the unoptimized IR is evaluated by the interpreter, whatever the
\* flags are.
C14_UnoptInterpreterAlwaysRuns ==
  pc = "done" /\ inputs.args_filename /\ NoEarlierFailure =>
    "unoptimized_interpret_ir" \in Executed

\* The run returns at the conversion step: DSLX input that is not to be
\* converted.
EndsAtConversion == options.input_is_dslx /\ ~options.convert_to_ir

\* C14, amended: in every run with an args file in which no earlier stage
\* fails and which does not return at the conversion step, the unoptimized
\* IR is evaluated by the interpreter, for both values of use_jit and every
\* value of optimize_ir, codegen and simulate; a run that returns at the
\* conversion step evaluates no IR.
C14_UnoptInterpreterRunsUnlessReturned ==
  pc = "done" /\ inputs.args_filename /\ NoEarlierFailure =>
    IF EndsAtConversion
    THEN Executed \subseteq { "interpret_dslx" }
    ELSE "unoptimized_interpret_ir" \in Executed

\* A function sample with args and use_jit true: the interpreter evaluated
\* the unoptimized IR before the JIT did, and the run succeeded.
C14_Witness ==
  /\ pc = "done" /\ raised.kind = "none"
  /\ options.top_type = "function"
  /\ inputs.args_filename /\ options.use_jit /\ ~options.optimize_ir
  /\ ~EndsAtConversion
  /\ executed = << "convert_ir", "unoptimized_interpret_ir",
                   "unoptimized_jit", "compare" >>

\* C15: with input_is_dslx true and convert_to_ir false, whatever the other
\* flags are: no stage other than the interpretation of the DSLX ever runs
\* (no conversion, evaluation, optimization, codegen or simulation, and no
\* comparison), the ResultSet holds at most the interpretation's result,
\* and an error is raised only if the interpretation fails; the
\* interpretation runs exactly when the ArgsBatch is non-empty.
C15_ReturnsAtConversion ==
  EndsAtConversion /\ InputsRead =>
    /\ Executed \subseteq { "interpret_dslx" }
    /\ Keys(results) \subseteq { "interpreted DSLX" }
    /\ outcome = NotCompared
    /\ raised.kind # "none" => raised.at = "interpret_dslx"
    /\ pc = "done" /\ raised.kind = "none" =>
         /\ "interpret_dslx" \in Executed <=> Truthy(args_batch)
         /\ Len(results) = 1 <=> Truthy(args_batch)

\* A DSLX function sample with a batch of two, convert_to_ir false and every
\* other flag true: the run ended without error after the interpretation,
\* holding its result.
C15_Witness ==
  /\ pc = "done" /\ raised.kind = "none"
  /\ options.top_type = "function" /\ EndsAtConversion
  /\ options.optimize_ir /\ options.use_jit /\ options.codegen
  /\ options.simulate
  /\ args_batch = ArgsBatch(2)
  /\ executed = << "interpret_dslx" >>
  /\ Keys(results) = { "interpreted DSLX" }

\* What the comparator of the sample's kind does with the ResultSet.
Comparison ==
  IF options.top_type = "function"
  THEN _compare_results_function(results, args_batch)
  ELSE _compare_results_proc(results)

\* C16: with optimize_ir false, whatever codegen and simulate are, neither
\* the optimization nor an evaluation of optimized IR nor codegen nor
\* simulation ever runs, and the ResultSet holds results of the first three
\* stages only; a run that got past the conversion step without a failing
\* stage ends with the comparison of the results gathered so far.
C16_NothingAfterUnoptimizedEvaluation ==
  ~options.optimize_ir =>
    /\ Executed \cap { "optimize", "optimized_jit", "optimized_interpret_ir",
                       "codegen", "simulate" } = {}
    /\ Keys(results) \subseteq
         { "interpreted DSLX", "evaluated unopt IR (interpreter)",
           "evaluated unopt IR (JIT)" }
    /\ pc = "done" /\ InputsRead /\ ~EndsAtConversion
         /\ (raised.kind = "none" \/ raised.at = "compare") =>
         /\ executed[Len(executed)] = "compare"
         /\ outcome = Comparison

\* A DSLX function sample with args, optimize_ir false and use_jit, codegen
\* and simulate true went from the JIT evaluation of the unoptimized IR
\* straight to the comparison of three results.
C16_Witness ==
  /\ pc = "done"
  /\ options.top_type = "function"
  /\ ~options.optimize_ir /\ options.codegen /\ options.simulate
  /\ executed = << "interpret_dslx", "convert_ir", "unoptimized_interpret_ir",
                   "unoptimized_jit", "compare" >>
  /\ Len(results) = 3

\* C17: in proc mode no "simulated" result ever enters the ResultSet; a run
\* that enters the simulation step ends there with a SampleError whose
\* is_timeout is false, without invoking the comparator; and every run with
\* optimize_ir, codegen and simulate true whose codegen succeeded does enter
\* the simulation step.
C17_ProcSimulationAlwaysFails ==
  options.top_type = "proc" =>
    /\ "simulated" \notin Keys(results)
    /\ "simulate" \in Executed =>
         /\ pc = "done"
         /\ raised.kind = "SampleError" /\ ~raised.is_timeout
         /\ raised.at = "simulate"
         /\ "compare" \notin Executed /\ outcome = NotCompared
    /\ pc = "done" /\ options.optimize_ir /\ options.codegen
         /\ options.simulate /\ "codegen" \in timing =>
         "simulate" \in Executed

\* A proc sample with args, channel names and initial values and every flag
\* true: all eight stages before the simulation succeeded, five results
\* were gathered, and the simulation raised the "unsupported" error.
C17_Witness ==
  /\ pc = "done" /\ options.top_type = "proc"
  /\ raised.kind = "SampleError" /\ raised.at = "simulate"
  /\ raised.cause = "unsupported" /\ ~raised.is_timeout
  /\ Len(executed) = 9 /\ Len(results) = 5

(***************************************************************************)
(* Independence of the insertion order (specification SpecCompare).        *)
(***************************************************************************)
\* The same mapping from stage names to results, inserted in another order.
Reordered(res, p) == [k \in 1..Len(res) |-> res[p[k]]]

\* What the comparator of the harness's mode does with ResultSet res.
CompareOf(res) ==
  IF options.top_type = "function"
  THEN _compare_results_function(res, args_batch)
  ELSE _compare_results_proc(res)

\* An outcome that names a reference names the lexicographically smallest
\* stage of the ResultSet.
ReferenceIsSmallest ==
  pc = "compared" /\ outcome.reference # "" =>
    outcome.reference = Lexicographic[1]

AssertionPassesOn(res) ==
  options.top_type = "function" /\ Len(res) > 0 /\ Truthy(args_batch) =>
    Len(res[1].values) = args_batch.len

C19_TimingIffExecuted ==
  pc = "done" => timing = Executed \ { "compare" }

(***************************************************************************)
(* _run_proc against _run_function (specification Spec).                   *)
(***************************************************************************)
\* The stages _run_function executes after position `from` of CodeOrder
\* when none of them fails, for the given flags, input files and ArgsBatch.
RECURSIVE FunctionSkeleton(_, _, _, _)
FunctionSkeleton(opts, inp, batch, from) ==
  LET later == { k \in (from + 1)..Len(CodeOrder) :
                   RunsFunction(opts, inp, batch, CodeOrder[k]) }
      k == CHOOSE j \in later : \A l \in later : j <= l
  IN  IF CodeOrder[k] = "return" THEN <<>>
      ELSE IF CodeOrder[k] = "compare" THEN << "compare" >>
      ELSE << CodeOrder[k] >> \o FunctionSkeleton(opts, inp, batch, k)

\* The part of a sequence of stages that precedes the simulation.
BeforeSimulation(stages) ==
  IF \E k \in 1..Len(stages) : stages[k] = "simulate"
  THEN SubSeq(stages, 1,
              (CHOOSE k \in 1..Len(stages) : stages[k] = "simulate") - 1)
  ELSE stages

IsPrefix(p, q) == Len(p) <= Len(q) /\ SubSeq(q, 1, Len(p)) = p

\* A stage before the simulation was ended by what its tool or interpreter
\* did: exit status, timeout, or a failure of the interpreter or of parsing
\* the tool's output.
ToolFailed ==
  /\ raised.kind # "none"
  /\ raised.at \notin { "simulate", "compare" }
  /\ raised.exc \in { "CalledProcessError", "TimeoutExpired", "XlsError" }

\* The run executed, up to the simulation, the stages of _run_function's
\* skeleton: always a prefix of them, and all of them once the run has
\* ended other than by a tool's failure.
FollowsFunctionSkeleton ==
  LET skeleton ==
        BeforeSimulation(FunctionSkeleton(options, inputs, args_batch, 0))
  IN  /\ IsPrefix(BeforeSimulation(executed), skeleton)
      /\ pc = "done" /\ ~ToolFailed => BeforeSimulation(executed) = skeleton

\* C20 as stated: for the same flags, args file and tool outcomes a proc run
\* executes the same stages up to the simulation as a function run, whether
\* or not the channel names and initial values were supplied.
C20_ProcFollowsFunctionSkeleton ==
  InputsRead => FollowsFunctionSkeleton

\* The channel names and the initial values of the proc were supplied, and
\* every vector of the ArgsBatch has one Value per channel name.
ProcInputsSupplied ==
  /\ inputs.ir_channel_names_filename
  /\ inputs.proc_init_values_filename
  /\ inputs.args_match_channels

\* C20, amended: the same, for proc runs that were given the channel names
\* and the initial values, with argument vectors that fit the channel
\* names.
C20_ProcFollowsFunctionSkeletonGivenInputs ==
  InputsRead /\ (options.top_type = "proc" => ProcInputsSupplied) =>
    FollowsFunctionSkeleton

\* A proc sample with all its input files, use_jit and optimize_ir true and
\* codegen false went through all seven stages of the function skeleton to
\* the comparison.
C20_Witness ==
  /\ pc = "done" /\ options.top_type = "proc" /\ ProcInputsSupplied
  /\ ~ToolFailed
  /\ executed = << "interpret_dslx", "convert_ir", "unoptimized_interpret_ir",
                   "unoptimized_jit", "optimize", "optimized_jit",
                   "optimized_interpret_ir", "compare" >>
  /\ executed = FunctionSkeleton(options, inputs, args_batch, 0)

(***************************************************************************)
(* The artifacts of the run directory (specification Spec).                *)
(***************************************************************************)
\* The external tool a stage invokes through _run_command (the DSLX
\* interpreter runs in process).
ToolOf(stage) ==
  CASE stage = "convert_ir" -> "ir_converter_main"
    [] stage \in { "unoptimized_interpret_ir", "unoptimized_jit",
                   "optimized_jit", "optimized_interpret_ir" } ->
         IF options.top_type = "function" THEN "eval_ir_main"
         ELSE "eval_proc_main"
    [] stage = "optimize" -> "opt_main"
    [] stage = "codegen" -> "codegen_main"
    [] stage = "simulate" -> "simulate_module_main"

\* The stages whose tool was invoked: those that ran to completion, and the
\* one ended by its tool's exit status or timeout.
Invoked ==
  (timing \ { "interpret_dslx" })
    \cup (IF raised.cause \in { "nonzero_exit", "timeout" }
          THEN { raised.at } ELSE {})

FileNames == { f[1] : f \in run_dir }

\* C21: after every invocation of an external tool, whatever its outcome
\* (zero exit, non-zero exit or timeout), <tool>.stderr is in the run
\* directory; the file left is that of the tool's latest invocation.
C21_StderrArtifactAfterEveryInvocation ==
  \A stage \in Invoked :
    /\ <<ToolOf(stage), ".stderr">> \in FileNames
    /\ \E other \in Executed \ { "interpret_dslx", "compare" } :
         /\ ToolOf(other) = ToolOf(stage)
         /\ << <<ToolOf(stage), ".stderr">>, other >> \in run_dir
         /\ Rank(stage) <= Rank(other)

\* The optimizer timed out after the converter and the evaluator had each
\* been invoked with success: all three stderr files are there.
C21_Witness ==
  /\ pc = "done" /\ raised.at = "optimize" /\ raised.cause = "timeout"
  /\ options.top_type = "function"
  /\ Invoked = { "convert_ir", "unoptimized_interpret_ir", "unoptimized_jit",
                 "optimize" }
  /\ << <<"opt_main", ".stderr">>, "optimize" >> \in run_dir
  /\ << <<"eval_ir_main", ".stderr">>, "unoptimized_jit" >> \in run_dir

(***************************************************************************)
(* The precondition assertion of _compare_results_function (specification  *)
(* SpecCompareFunction).                                                   *)
(***************************************************************************)
\* Some stage's sequence has another length than the ArgsBatch.
SomeLengthOffBatch ==
  \E k \in 1..Len(results) : Len(results[k].values) # args_batch.len

\* C22 as stated: when an ArgsBatch (here: a non-empty one) is supplied,
\* the assertion fails if any stage's sequence length differs from the
\* batch length, and only then.
C22_AssertionChecksEveryStage ==
  pc = "compared" /\ Truthy(args_batch) /\ Len(results) > 0 =>
    (outcome.kind = "AssertionError" <=> SomeLengthOffBatch)

\* C22, amended: the assertion is made only for a non-empty ArgsBatch and
\* reads only the first stage inserted: it fails exactly when that stage's
\* sequence length differs from the batch length.  A ResultSet in which
\* another stage's length is off the batch length passes the assertion and
\* is rejected by the scan; it is never accepted.
C22_AssertionChecksFirstInserted ==
  pc = "compared" /\ Len(results) > 0 =>
    /\ outcome.kind = "AssertionError" <=>
         Truthy(args_batch) /\ Len(results[1].values) # args_batch.len
    /\ Truthy(args_batch) /\ SomeLengthOffBatch => outcome.kind # "return"

\* The first stage inserted has the batch's length and the second has not:
\* the assertion passed and the scan raised the length error.
C22_Witness ==
  /\ pc = "compared" /\ args_batch = ArgsBatch(1)
  /\ Len(results) = 2
  /\ Len(results[1].values) = 1 /\ Len(results[2].values) = 2
  /\ outcome.kind = "length"

(***************************************************************************)
(* The scan order of _compare_results_proc (specification SpecCompareProc).*)
(***************************************************************************)
Least(S) == CHOOSE x \in S : \A y \in S : x <= y

\* The positions in Lexicographic of the candidates that violate a check.
ViolatingStages ==
  { k \in 2..Len(Lexicographic) :
      ~StageMatches(ChannelsOf(Lexicographic[1]),
                    ChannelsOf(Lexicographic[k])) }

\* The error that reports the first violation of candidate `name` against
\* the reference: the channel-count check first; then, for the first
\* channel of the reference (in the reference's order) that does not match,
\* presence, then length, then the least index with unequal elements.
FirstViolationOf(reference, name) ==
  LET ref  == ChannelsOf(reference)
      cand == ChannelsOf(name)
      base == [Returned EXCEPT !.reference = reference, !.name = name]
  IN  IF Len(ref) # Len(cand)
      THEN [base EXCEPT !.kind = "channel_count", !.ref_len = Len(ref),
                        !.len = Len(cand), !.ref_channels = KeyList(ref),
                        !.channels = KeyList(cand)]
      ELSE
        LET c  == Least({ d \in 1..Len(ref) : ~ChannelMatches(ref, cand, d) })
            ch == ref[c].name
        IN  IF ch \notin Keys(cand)
            THEN [base EXCEPT !.kind = "missing_channel", !.channel = ch]
            ELSE IF Len(ref[c].values) # Len(Lookup(cand, ch))
            THEN [base EXCEPT !.kind = "channel_length", !.channel = ch,
                              !.ref_len = Len(ref[c].values),
                              !.len = Len(Lookup(cand, ch))]
            ELSE
              LET i == Least({ j \in 0..(Len(ref[c].values) - 1) :
                                 ~SignAgnosticEqual(ref[c].values[j + 1],
                                                    Lookup(cand, ch)[j + 1]) })
              IN  [base EXCEPT !.kind = "channel_value", !.channel = ch,
                               !.index = i,
                               !.ref_result = ref[c].values[i + 1],
                               !.value = Lookup(cand, ch)[i + 1]]

\* C23: the comparator returns when no candidate violates a check, and
\* otherwise raises exactly the error of the first violation in scan order:
\* that of the first violating candidate in lexicographic order, and for it
\* the channel-count error before any missing-channel, length or value
\* error.  Every element comparison made before the error found equal
\* elements.
C23_ProcReportsFirstViolation ==
  pc = "compared" /\ Len(results) > 0 =>
    IF ViolatingStages = {} THEN outcome.kind = "return"
    ELSE /\ [outcome EXCEPT !.compared = <<>>] =
              FirstViolationOf(Lexicographic[1],
                               Lexicographic[Least(ViolatingStages)])
         /\ \A n \in 1..Len(outcome.compared) :
              LET e == outcome.compared[n]
              IN  SignAgnosticEqual(
                    Lookup(ChannelsOf(outcome.reference), e[2])[e[3] + 1],
                    Lookup(ChannelsOf(e[1]), e[2])[e[3] + 1])
                  \/ /\ n = Len(outcome.compared)
                     /\ outcome.kind = "channel_value"
                     /\ e = <<outcome.name, outcome.channel, outcome.index>>

\* Of three stages the second matches the reference and the third lacks one
\* of the reference's two channels: the channel-count error is raised for
\* the third, not the missing-channel error.
C23_Witness ==
  /\ pc = "compared" /\ Len(results) = 3
  /\ outcome.kind = "channel_count"
  /\ outcome.name = Lexicographic[3]
  /\ outcome.ref_len = 2 /\ outcome.len = 1
  /\ ViolatingStages = { 3 }
  /\ \E c \in 1..2 : MissingAt(3, c)

(***************************************************************************)
(* Out-of-range reads of _compare_results_function (SpecCompareFunction).  *)
(***************************************************************************)
\* C24: for every non-empty ResultSet and every ArgsBatch that the
\* precondition assertion accepts, the comparator returns or raises the
\* length-mismatch or the value-miscompare SampleError: no read of a stage's
\* sequence or of the ArgsBatch is out of range (no IndexError).
C24_NoOutOfRangeRead ==
  pc = "compared" /\ Len(results) > 0 /\ outcome.kind # "AssertionError" =>
    outcome.kind \in { "return", "length", "miscompare" }

(***************************************************************************)
(* The .results artifact of an IR file (specification Spec).               *)
(***************************************************************************)
\* The evaluation steps whose output is written to <ir_filename>.results, in
\* the order the code runs them.
EvaluationsOf(ir_filename) ==
  IF ir_filename = "sample.ir"
  THEN << "unoptimized_interpret_ir", "unoptimized_jit" >>
  ELSE << "optimized_jit", "optimized_interpret_ir" >>

\* The evaluation step got its tool's output and wrote it: it completed, or
\* it failed only when the output was parsed.
Wrote(stage) ==
  \/ stage \in timing
  \/ raised.at = stage /\ raised.exc = "XlsError"

\* The steps whose output <ir_filename>.results holds.
HeldIn(ir_filename) ==
  { f[2] : f \in { g \in run_dir : g[1] = <<ir_filename, ".results">> } }

\* C25: both evaluations of an IR file write <ir_filename>.results, the
\* later overwriting the earlier.  The artifact holds the output of at most
\* one evaluation, the last one that wrote; after both evaluations wrote,
\* sample.ir.results holds the unoptimized JIT output and
\* sample.opt.ir.results the optimized interpreter output.
C25_ResultsArtifactHoldsLastEvaluation ==
  \A ir_filename \in { "sample.ir", "sample.opt.ir" } :
    LET evals == EvaluationsOf(ir_filename)
    IN  /\ Cardinality(HeldIn(ir_filename)) <= 1
        /\ HeldIn(ir_filename) \subseteq { evals[1], evals[2] }
        /\ Wrote(evals[2]) => HeldIn(ir_filename) = { evals[2] }
        /\ Wrote(evals[1]) /\ ~Wrote(evals[2]) =>
             HeldIn(ir_filename) = { evals[1] }
        /\ ~Wrote(evals[1]) /\ ~Wrote(evals[2]) => HeldIn(ir_filename) = {}

\* A run in which all four evaluations completed.
C25_Witness ==
  /\ pc = "done" /\ raised.kind = "none"
  /\ { "unoptimized_interpret_ir", "unoptimized_jit",
       "optimized_jit", "optimized_interpret_ir" } \subseteq timing
  /\ << <<"sample.ir", ".results">>, "unoptimized_jit" >> \in run_dir
  /\ << <<"sample.opt.ir", ".results">>, "optimized_interpret_ir" >>
       \in run_dir

(***************************************************************************)
(* The reference stage of a pipeline run (specification Spec).             *)
(***************************************************************************)
IrEvaluationResults ==
  { "evaluated opt IR (JIT)", "evaluated opt IR (interpreter)",
    "evaluated unopt IR (JIT)", "evaluated unopt IR (interpreter)" }

\* The stage the comparator takes as reference: the first name of
\* sorted(results.keys()).
ReferenceStage == sorted(KeyList(results))[1]

SimulationWithoutArgs ==
  /\ options.optimize_ir /\ options.codegen /\ options.simulate
  /\ ~inputs.args_filename

\* The last n steps of the run.
LastSteps(n) ==
  IF Len(executed) < n THEN <<>>
  ELSE SubSeq(executed, Len(executed) - n + 1, Len(executed))

\* C27: with optimize_ir, codegen and simulate all true and no args file,
\* the simulation step is not skipped.  A run whose earlier steps succeed
\* and which does not return after the DSLX interpretation executes the
\* optimization and the code generation and then fails on the assertion
\* that the args file is present: it ends in SampleError with is_timeout
\* false and exception.txt written.  (The other runs end with the options
\* file rejected, with a failure while loading, converting, optimizing or
\* generating, or with the early return.)  The simulator tool is never invoked,
\* no "simulated" result is gathered and the comparator never runs.
C27_SimulationAssertsArgsPresent ==
  SimulationWithoutArgs =>
    /\ "compare" \notin Executed /\ outcome = NotCompared
    /\ <<"simulate_module_main", ".stderr">> \notin FileNames
    /\ <<"sample.v", ".results">> \notin FileNames
    /\ "simulated" \notin Keys(results) /\ "simulate" \notin timing
    /\ "codegen" \in timing => pc \in { "simulate", "done" }
    /\ pc = "done" =>
         \/ raised.kind = "none" /\ EndsAtConversion
         \/ raised.kind = "escaped" /\ raised.at = "start"
         \/ /\ raised.kind = "SampleError"
            /\ raised.at \in { "load", "convert_ir", "optimize", "codegen" }
         \/ /\ raised.kind = "SampleError" /\ ~raised.is_timeout
            /\ raised.at = "simulate" /\ raised.exc = "AssertionError"
            /\ LastSteps(3) = << "optimize", "codegen", "simulate" >>
            /\ { "optimize", "codegen" } \subseteq timing
            /\ ExceptionFileWritten

\* A function sample given as IR, no args file, all three flags true: the
\* optimizer and the code generator ran, and the run ended on the assertion.
C27_Witness ==
  /\ SimulationWithoutArgs /\ options.top_type = "function"
  /\ pc = "done"
  /\ executed = << "optimize", "codegen", "simulate" >>
  /\ raised.at = "simulate" /\ raised.exc = "AssertionError"
  /\ ~raised.is_timeout
  /\ <<"codegen_main", ".stderr">> \in FileNames

====
